---- MODULE Spec2Model ----
(***************************************************************************)
(* A model of app.py: the audio -> transcript -> analysis report pipeline. *)
(*                                                                         *)
(* Text is a sequence of symbols.  A symbol is one character ("a", " ",    *)
(* "\n", "0" ...) or, for fixed text of the program, one token naming a    *)
(* literal fragment of the source.  Korean text is romanised, one symbol   *)
(* per syllable: "hwa","ja","mi","sang" is the speaker label 화자미상 and   *)
(* "eops","eum" is the marker 없음.                                         *)
(***************************************************************************)
EXTENDS Integers, Sequences, FiniteSets

VARIABLES pc, argv, env, args, quantitative_data, client, response,
          transcript, prompt, report, clock, ts, saved_paths, calls, err,
          stages

vars == <<pc, argv, env, args, quantitative_data, client, response,
          transcript, prompt, report, clock, ts, saved_paths, calls, err,
          stages>>

-----------------------------------------------------------------------------
(* Bounds of the model *)

\* segments in one transcription response
MaxSegs == 2
\* characters of text carried by one transcription response
MaxChars == 3
\* seconds the wall clock may advance during one run
MaxTicks == 2

-----------------------------------------------------------------------------
(* Text *)

NL == "\n"
Whitespace == {" ", NL}
Alphabet == {"a", " ", NL}

Min(S) == CHOOSE x \in S : \A y \in S : x <= y
Max(S) == CHOOSE x \in S : \A y \in S : x >= y

\* all texts over Alphabet of at most n characters
Strs(n) == UNION {[1..k -> Alphabet] : k \in 0..n}

\* str.strip(): leading and trailing whitespace removed
Strip(s) ==
    LET keep == {i \in 1..Len(s) : s[i] \notin Whitespace}
    IN  IF keep = {} THEN <<>> ELSE SubSeq(s, Min(keep), Max(keep))

RECURSIVE Join(_, _)
\* sep.join(parts)
Join(parts, sep) ==
    IF Len(parts) = 0 THEN <<>>
    ELSE IF Len(parts) = 1 THEN parts[1]
    ELSE parts[1] \o sep \o Join(Tail(parts), sep)

DigitChars == <<"0", "1", "2", "3", "4", "5", "6", "7", "8", "9">>

RECURSIVE Decimal(_)
\* str(n) for n >= 0
Decimal(n) ==
    IF n < 10 THEN <<DigitChars[n + 1]>>
    ELSE Decimal(n \div 10) \o <<DigitChars[(n % 10) + 1]>>

RECURSIVE ZeroPad(_, _)
ZeroPad(digits, width) ==
    IF Len(digits) >= width THEN digits ELSE ZeroPad(<<"0">> \o digits, width)

\* format(n, "d"): no padding
Format02d_Unpadded(n) == IF n >= 0 THEN Decimal(n) ELSE <<"-">> \o Decimal(-n)

\* format(n, "02d"): sign-aware zero padding to a minimum width of 2
Format02d(n) ==
    IF n >= 0 THEN ZeroPad(Decimal(n), 2)
    ELSE <<"-">> \o ZeroPad(Decimal(-n), 1)

-----------------------------------------------------------------------------
(* transcribe_audio: the normalisation of the service's response *)

\* getattr(obj, name, default) on a record that carries has_<name>
GetAttr(has, value, default) == IF has THEN value ELSE default

\* int(x) of a time given in half seconds: truncation toward zero
IntOfHalves(h) == IF h >= 0 THEN h \div 2 ELSE -((-h) \div 2)

SPEAKER == <<"hwa", "ja", "mi", "sang">>

SegmentText(segment) == Strip(GetAttr(segment.has_text, segment.text, <<>>))

FormatLine(segment) ==
    LET start_sec == IntOfHalves(GetAttr(segment.has_start, segment.start, 0))
        mm == start_sec \div 60
        ss == start_sec % 60
    IN  <<"[">> \o Format02d(mm) \o <<":">> \o Format02d(ss) \o <<"]", " ">>
            \o SPEAKER \o <<":", " ">> \o SegmentText(segment)

\* the for loop without its "if text:" filter
CollectLines_Unfiltered(segments) == [i \in 1..Len(segments) |-> FormatLine(segments[i])]

RECURSIVE CollectLines(_)
\* the for loop: one entry per segment whose stripped text is non-empty
CollectLines(segments) ==
    IF Len(segments) = 0 THEN <<>>
    ELSE (IF SegmentText(Head(segments)) /= <<>>
          THEN <<FormatLine(Head(segments))>> ELSE <<>>)
         \o CollectLines(Tail(segments))

\* the fallback without its strip()
FormatTranscript_Unstripped(resp) ==
    LET segments == GetAttr(resp.has_segments, resp.segments, <<>>)
    IN  IF Len(segments) = 0
        THEN GetAttr(resp.has_text, resp.text, <<>>)
        ELSE Strip(Join(CollectLines(segments), <<NL>>))

FormatTranscript(resp) ==
    LET segments == GetAttr(resp.has_segments, resp.segments, <<>>)
    IN  IF Len(segments) = 0
        THEN Strip(GetAttr(resp.has_text, resp.text, <<>>))
        ELSE Strip(Join(CollectLines(segments), <<NL>>))

-----------------------------------------------------------------------------
(* JSON documents and json.dumps(..., ensure_ascii=False, indent=2) *)

\* A document is null, a boolean, an integer, a string, a list of scalars or
\* an object of scalar members; t names which.
JNull == [t |-> "null", b |-> FALSE, n |-> 0, s |-> <<>>, items |-> <<>>]
JBool(x) == [t |-> "bool", b |-> x, n |-> 0, s |-> <<>>, items |-> <<>>]
JInt(x) == [t |-> "int", b |-> FALSE, n |-> x, s |-> <<>>, items |-> <<>>]
JStr(x) == [t |-> "str", b |-> FALSE, n |-> 0, s |-> x, items |-> <<>>]
JList(xs) == [t |-> "list", b |-> FALSE, n |-> 0, s |-> <<>>, items |-> xs]
JObj(kvs) == [t |-> "obj", b |-> FALSE, n |-> 0, s |-> <<>>, items |-> kvs]

\* json.loads maps the document null to None
None == JNull

\* bool(x) of a loaded document: None, False, 0, "", [] and {} are falsy
Truthy(v) ==
    CASE v.t = "null" -> FALSE
      [] v.t = "bool" -> v.b
      [] v.t = "int" -> v.n /= 0
      [] v.t = "str" -> Len(v.s) > 0
      [] OTHER -> Len(v.items) > 0

\* characters outside ASCII ("gap" is the syllable 값)
NonAscii == {"gap"}

\* one character of a JSON string; ensure_ascii escapes non-ASCII as \uXXXX
EncodeChar(c, ensure_ascii) ==
    IF ensure_ascii /\ c \in NonAscii
    THEN <<"\\", "u", "a", "c", "1", "2">>
    ELSE <<c>>

RECURSIVE EncodeChars(_, _)
EncodeChars(s, ensure_ascii) ==
    IF Len(s) = 0 THEN <<>>
    ELSE EncodeChar(Head(s), ensure_ascii) \o EncodeChars(Tail(s), ensure_ascii)

DumpString(s, ensure_ascii) == <<"\"">> \o EncodeChars(s, ensure_ascii) \o <<"\"">>

DumpScalar(v, ensure_ascii) ==
    CASE v.t = "null" -> <<"n", "u", "l", "l">>
      [] v.t = "bool" -> IF v.b THEN <<"t", "r", "u", "e">>
                                ELSE <<"f", "a", "l", "s", "e">>
      [] v.t = "int" -> IF v.n >= 0 THEN Decimal(v.n)
                                    ELSE <<"-">> \o Decimal(-v.n)
      [] OTHER -> DumpString(v.s, ensure_ascii)

RECURSIVE Spaces(_)
Spaces(n) == IF n = 0 THEN <<>> ELSE <<" ">> \o Spaces(n - 1)

\* json.dumps(v, ensure_ascii=..., indent=...)
Dumps(v, ensure_ascii, indent) ==
    LET member(i) ==
            Spaces(indent) \o
            (IF v.t = "obj"
             THEN DumpString(v.items[i].k, ensure_ascii) \o <<":", " ">>
                      \o DumpScalar(v.items[i].v, ensure_ascii)
             ELSE DumpScalar(v.items[i], ensure_ascii))
        open == IF v.t = "obj" THEN "{" ELSE "["
        close == IF v.t = "obj" THEN "}" ELSE "]"
    IN  IF v.t \notin {"list", "obj"} THEN DumpScalar(v, ensure_ascii)
        ELSE IF Len(v.items) = 0 THEN <<open, close>>
        ELSE <<open, NL>>
                 \o Join([i \in 1..Len(v.items) |-> member(i)], <<",", NL>>)
                 \o <<NL, close>>

-----------------------------------------------------------------------------
(* build_analysis_prompt *)

NONE_MARKER == <<"eops", "eum">>

\* json.dumps(quantitative_data, ensure_ascii=False, indent=2)
\*     if quantitative_data else "없음"
QuantitativeText(data) ==
    IF Truthy(data) THEN Dumps(data, FALSE, 2) ELSE NONE_MARKER

meeting_template ==
    <<NL, "#### [meeting/workshop analysis report]", NL,
      "1. meeting overview", NL,
      "2. data-driven trend analysis", NL,
      "3. key findings and in-depth analysis", NL,
      "4. actionable hypotheses", NL,
      "5. action plan (RASCI matrix)", NL,
      "6. chain-of-thought and common-sense check summary", NL,
      "7. appendix", NL>>

interview_template ==
    <<NL, "#### [1:1 interview analysis report]", NL,
      "1. executive summary", NL,
      "2. per-code analysis results", NL,
      "3. key findings", NL,
      "4. overall insights", NL,
      "5. risks and opportunities", NL,
      "6. chain-of-thought and common-sense check summary", NL,
      "7. appendix", NL>>

\* the fallback turned round: interview only when asked for
SelectedTemplate_MeetingFallback(report_type) ==
    IF report_type = "interview" THEN interview_template ELSE meeting_template

SelectedTemplate(report_type) ==
    IF report_type = "meeting" THEN meeting_template ELSE interview_template

\* str(b) of a bool
PyStr(b) == IF b THEN <<"T", "r", "u", "e">> ELSE <<"F", "a", "l", "s", "e">>

LowerChar(c) == CASE c = "T" -> "t" [] c = "F" -> "f" [] OTHER -> c

\* str.lower()
Lower(s) == [i \in 1..Len(s) |-> LowerChar(s[i])]

RenderFlag(b) == Lower(PyStr(b))

\* kw is the record of the keyword arguments of the call
build_analysis_prompt(kw) ==
    Strip(
        <<NL, "## Universal Interview / Meeting Analysis Prompt", NL, NL,
          "### 1. PARAMETERS", NL>>
        \o <<"- Company_Name: ", "\"">> \o kw.company_name \o <<"\"", NL>>
        \o <<"- Language_Output: ", "\"">> \o kw.language_output \o <<"\"", NL>>
        \o <<"- Output_Detail_Level: ", "\"">> \o kw.detail_level \o <<"\"", NL>>
        \o <<"- Privacy_Anonymize: ">> \o RenderFlag(kw.privacy_anonymize) \o <<NL>>
        \o <<"- Confidence_Labeling: ">> \o RenderFlag(kw.confidence_labeling) \o <<NL>>
        \o <<"- Pre_briefing_Context: ", "\"">> \o kw.pre_briefing_context \o <<"\"", NL>>
        \o <<"- Quantitative_Data:", NL>>
        \o QuantitativeText(kw.quantitative_data) \o <<NL, NL>>
        \o <<"### 2. INPUT TRANSCRIPT", NL, "INPUT_TRANSCRIPT_START", NL, "<<<", NL>>
        \o kw.transcript \o <<NL>>
        \o <<">>>", NL, "INPUT_TRANSCRIPT_END", NL, NL>>
        \o <<"### 3. EXECUTION PIPELINE & ANALYSIS FRAMEWORKS", NL,
             "- STAGE 1.", NL, "- STAGE 2.", NL, "- STAGE 3.", NL, NL>>
        \o <<"### 4. FINAL OUTPUT TEMPLATES", NL>>
        \o SelectedTemplate(kw.report_type) \o <<NL, NL>>
        \o <<"### writing guidelines", NL,
             "- write the output in Korean", NL,
             "- Privacy_Anonymize=true: de-identify names", NL,
             "- Confidence_Labeling=true: label Evidence Strength", NL,
             "- tables in Markdown", NL,
             "- quotes carry timestamps", NL>>)

\* build_analysis_report: response.output_text.strip()
ReportOf(output_text) == Strip(output_text)

-----------------------------------------------------------------------------
(* load_quantitative_data, parse_args, save_outputs: the pure parts *)

Absent == "<absent>"

\* Path.read_text followed by json.loads, on the state of the file
load_quantitative_data(path_given, file) ==
    IF ~path_given THEN [err |-> "none", value |-> None]
    ELSE IF file.st = "missing" THEN [err |-> "FileNotFoundError", value |-> None]
    ELSE IF file.st = "malformed" THEN [err |-> "JSONDecodeError", value |-> None]
    ELSE [err |-> "none", value |-> file.doc]

ReportTypeChoices == {"meeting", "interview"}

\* argparse: defaults for the options the command line leaves out,
\* store_true for the two --no-* flags, choices checked for --report-type
parse_args(cmd) ==
    [err |-> IF cmd.report_type \in ReportTypeChoices \cup {Absent}
             THEN "none" ELSE "SystemExit",
     ns |-> [company |-> <<"sin", "han", "jeong", "mil", "gong", "eop">>,
             language |-> <<"k", "o">>,
             output_dir |-> IF cmd.output_dir = Absent THEN "outputs"
                            ELSE cmd.output_dir,
             report_type |-> IF cmd.report_type = Absent THEN "meeting"
                             ELSE cmd.report_type,
             detail_level |-> <<"Exhaustive">>,
             pre_briefing_context |-> NONE_MARKER,
             quant_data |-> cmd.quant_data,
             no_anonymize |-> cmd.no_anonymize,
             no_confidence_label |-> cmd.no_confidence_label]]

\* the two flags passed to each other's parameter
PromptArguments_FlagsSwapped(ns, transcript_, data) ==
    [transcript |-> transcript_,
     report_type |-> ns.report_type,
     company_name |-> ns.company,
     language_output |-> ns.language,
     detail_level |-> ns.detail_level,
     privacy_anonymize |-> ~ns.no_confidence_label,
     confidence_labeling |-> ~ns.no_anonymize,
     pre_briefing_context |-> ns.pre_briefing_context,
     quantitative_data |-> data]

\* the keyword arguments main passes to build_analysis_prompt
PromptArguments(ns, transcript_, data) ==
    [transcript |-> transcript_,
     report_type |-> ns.report_type,
     company_name |-> ns.company,
     language_output |-> ns.language,
     detail_level |-> ns.detail_level,
     privacy_anonymize |-> ~ns.no_anonymize,
     confidence_labeling |-> ~ns.no_confidence_label,
     pre_briefing_context |-> ns.pre_briefing_context,
     quantitative_data |-> data]

\* datetime.strftime("%Y%m%d_%H%M%S") of the t-th second of a fixed day
Strftime(t) ==
    <<"2", "0", "2", "4", "0", "1", "1", "5", "_">>
        \o Format02d(t \div 3600) \o Format02d((t \div 60) % 60) \o Format02d(t % 60)

\* output_dir / f"transcript_{ts}.txt"
TranscriptPath(output_dir, stamp) ==
    [dir |-> output_dir, name |-> <<"transcript_">> \o stamp \o <<".txt">>]

\* the report written to the default directory, whatever --output-dir says
ReportPath_DefaultDir(output_dir, stamp) ==
    [dir |-> "outputs", name |-> <<"analysis_report_">> \o stamp \o <<".md">>]

\* output_dir / f"analysis_report_{ts}.md"
ReportPath(output_dir, stamp) ==
    [dir |-> output_dir, name |-> <<"analysis_report_">> \o stamp \o <<".md">>]

\* Path.write_text that succeeds: the file holds exactly the text
WriteText(files, path, text) ==
    {f \in files : f.path /= path} \cup {[path |-> path, content |-> text, complete |-> TRUE]}

\* Path.write_text that fails after the file was opened: created or
\* truncated, the text not (all) written
WriteTextTorn(files, path) ==
    {f \in files : f.path /= path} \cup {[path |-> path, content |-> <<>>, complete |-> FALSE]}

-----------------------------------------------------------------------------
(* Inputs *)

\* segment start times, in half seconds: 65.5 s and 6005.5 s
StartValues == {131, 12011}

\* all texts over Alphabet of exactly n characters
StrsOfLen(n) == [1..n -> Alphabet]

\* the segments whose text has exactly n characters; either attribute may
\* be missing from the object
SegmentsOfLen(n) ==
    {[has_start |-> TRUE, start |-> h, has_text |-> TRUE, text |-> t] :
        h \in StartValues, t \in StrsOfLen(n)}
    \cup {[has_start |-> FALSE, start |-> 0, has_text |-> TRUE, text |-> t] :
        t \in StrsOfLen(n)}
    \cup (IF n > 0 THEN {}
          ELSE {[has_start |-> TRUE, start |-> h, has_text |-> FALSE, text |-> <<>>] :
                   h \in StartValues})

RECURSIVE TotalLen(_)
TotalLen(segments) ==
    IF Len(segments) = 0 THEN 0
    ELSE Len(Head(segments).text) + TotalLen(Tail(segments))

\* the characters of text a response carries
ResponseChars(resp) == Len(resp.text) + TotalLen(resp.segments)

\* the responses without segments: the attribute missing, or an empty list
FlatResponses ==
    {[has_segments |-> hs, segments |-> <<>>, has_text |-> TRUE, text |-> t] :
        hs \in BOOLEAN, t \in Strs(MaxChars)}
    \cup {[has_segments |-> hs, segments |-> <<>>, has_text |-> FALSE, text |-> <<>>] :
        hs \in BOOLEAN}

NoResponse == [has_segments |-> FALSE, segments |-> <<>>, has_text |-> FALSE, text |-> <<>>]

\* the responses a whole run is checked with
MainResponses ==
    {NoResponse,
     [has_segments |-> FALSE, segments |-> <<>>, has_text |-> TRUE, text |-> <<" ", "a", NL>>],
     [has_segments |-> TRUE, has_text |-> TRUE, text |-> <<"a">>,
      segments |-> <<[has_start |-> TRUE, start |-> 131, has_text |-> TRUE, text |-> <<"a", " ">>]>>],
     [has_segments |-> TRUE, has_text |-> TRUE, text |-> <<"a">>,
      segments |-> <<[has_start |-> TRUE, start |-> 12011, has_text |-> TRUE, text |-> <<" ">>],
                     [has_start |-> FALSE, start |-> 0, has_text |-> TRUE, text |-> <<"a">>]>>]}

\* the output texts of the generation service
GenOutputs == {<<"r">>, <<" ", "r", NL>>}

\* the documents a quantitative-data file may hold
QuantDocs ==
    {JNull, JBool(FALSE), JBool(TRUE), JInt(0), JStr(<<>>), JList(<<>>), JObj(<<>>),
     JList(<<JInt(7), JNull>>),
     JObj(<<[k |-> <<"k">>, v |-> JStr(<<"gap">>)], [k |-> <<"n">>, v |-> JInt(0)]>>)}

QuantFiles ==
    {[st |-> "missing", doc |-> None], [st |-> "malformed", doc |-> None]}
    \cup {[st |-> "doc", doc |-> d] : d \in QuantDocs}

DirNames == {"outputs", "out"}

CommandLines ==
    [report_type : {Absent, "meeting", "interview", "workshop"},
     output_dir : {Absent, "out"},
     quant_data : BOOLEAN,
     no_anonymize : BOOLEAN,
     no_confidence_label : BOOLEAN]

\* the file system and the environment variables a run starts in
Environments(cmd) ==
    {[audio |-> a, quant |-> q, api_key |-> key, files |-> {},
      dirs |-> [d \in DirNames |-> IF d = parse_args(cmd).ns.output_dir THEN st ELSE "absent"]] :
        a \in {"missing", "file", "dir"},
        q \in IF cmd.quant_data THEN QuantFiles ELSE {[st |-> "missing", doc |-> None]},
        key \in BOOLEAN,
        st \in {"absent", "dir", "file"}}

\* the wall clock at the start of a run: 00:59:58 of the day
ClockStart == 59 * 60 + 58

NoArgs == parse_args([report_type |-> Absent, output_dir |-> Absent, quant_data |-> FALSE,
                      no_anonymize |-> FALSE, no_confidence_label |-> FALSE]).ns

-----------------------------------------------------------------------------
(* main: one run of the pipeline *)

Blank(pc0) ==
    /\ pc = pc0
    /\ args = NoArgs
    /\ quantitative_data = None
    /\ client = FALSE
    /\ response = NoResponse
    /\ transcript = <<>>
    /\ prompt = <<>>
    /\ report = <<>>
    /\ clock = ClockStart
    /\ ts = <<>>
    /\ saved_paths = <<>>
    /\ calls = [transcribe |-> 0, generate |-> 0]
    /\ err = "none"
    /\ stages = <<>>

Init ==
    /\ argv \in CommandLines
    /\ env \in Environments(argv)
    /\ Blank("start")

\* an uncaught exception ends the run
Raise(name) == pc' = "failed" /\ err' = name

\* args = parse_args()
ParseArgs ==
    /\ pc = "start"
    /\ stages' = Append(stages, "loader")
    /\ LET r == parse_args(argv)
       IN  IF r.err = "none"
           THEN args' = r.ns /\ pc' = "check_audio" /\ err' = err
           ELSE args' = args /\ Raise(r.err)
    /\ UNCHANGED <<argv, env, quantitative_data, client, response, transcript,
                   prompt, report, clock, ts, saved_paths, calls>>

\* main without its check of the audio path
CheckAudio_Unchecked ==
    /\ pc = "check_audio"
    /\ pc' = "load_quant"
    /\ UNCHANGED <<argv, env, args, quantitative_data, client, response, transcript,
                   prompt, report, clock, ts, saved_paths, calls, err, stages>>

\* if not args.audio.exists(): raise FileNotFoundError
CheckAudio ==
    /\ pc = "check_audio"
    /\ IF env.audio = "missing"
       THEN Raise("FileNotFoundError")
       ELSE pc' = "load_quant" /\ err' = err
    /\ UNCHANGED <<argv, env, args, quantitative_data, client, response, transcript,
                   prompt, report, clock, ts, saved_paths, calls, stages>>

\* quantitative_data = load_quantitative_data(args.quant_data)
LoadQuant ==
    /\ pc = "load_quant"
    /\ LET r == load_quantitative_data(args.quant_data, env.quant)
       IN  IF r.err = "none"
           THEN quantitative_data' = r.value /\ pc' = "make_client" /\ err' = err
           ELSE quantitative_data' = quantitative_data /\ Raise(r.err)
    /\ UNCHANGED <<argv, env, args, client, response, transcript,
                   prompt, report, clock, ts, saved_paths, calls, stages>>

\* client = OpenAI(): raises when the environment holds no API key
MakeClient ==
    /\ pc = "make_client"
    /\ IF env.api_key
       THEN client' = TRUE /\ pc' = "transcribe" /\ err' = err
       ELSE client' = client /\ Raise("OpenAIError")
    /\ UNCHANGED <<argv, env, args, quantitative_data, response, transcript,
                   prompt, report, clock, ts, saved_paths, calls, stages>>

\* transcribe_audio: audio_path.open("rb") fails, the service is not called
TranscribeOpenFails ==
    /\ pc = "transcribe"
    /\ env.audio /= "file"
    /\ stages' = Append(stages, "transcription")
    /\ Raise(IF env.audio = "missing" THEN "FileNotFoundError" ELSE "IsADirectoryError")
    /\ UNCHANGED <<argv, env, args, quantitative_data, client, response, transcript,
                   prompt, report, clock, ts, saved_paths, calls>>

\* a failed call tried once more
TranscribeCallFails_Retried ==
    /\ pc = "transcribe"
    /\ env.audio = "file"
    /\ stages' = Append(stages, "transcription")
    /\ calls' = [calls EXCEPT !.transcribe = @ + 1]
    /\ IF calls.transcribe = 0 THEN pc' = pc /\ err' = err ELSE Raise("APIError")
    /\ UNCHANGED <<argv, env, args, quantitative_data, client, response, transcript,
                   prompt, report, clock, ts, saved_paths>>

\* transcribe_audio: the call to the service raises
TranscribeCallFails ==
    /\ pc = "transcribe"
    /\ env.audio = "file"
    /\ stages' = Append(stages, "transcription")
    /\ calls' = [calls EXCEPT !.transcribe = @ + 1]
    /\ Raise("APIError")
    /\ UNCHANGED <<argv, env, args, quantitative_data, client, response, transcript,
                   prompt, report, clock, ts, saved_paths>>

\* transcribe_audio returns: the service answered with one of the responses
TranscribeReturnsFrom(answers) ==
    /\ pc = "transcribe"
    /\ env.audio = "file"
    /\ stages' = Append(stages, "transcription")
    /\ calls' = [calls EXCEPT !.transcribe = @ + 1]
    /\ \E r \in answers :
          /\ response' = r
          /\ transcript' = FormatTranscript(r)
    /\ pc' = "build_prompt"
    /\ UNCHANGED <<argv, env, args, quantitative_data, client,
                   prompt, report, clock, ts, saved_paths, err>>

\* transcript = transcribe_audio(client, args.audio, args.language)
TranscribeReturns == TranscribeReturnsFrom(MainResponses)

\* prompt = build_analysis_prompt(...)
BuildPrompt ==
    /\ pc = "build_prompt"
    /\ stages' = Append(stages, "prompt")
    /\ prompt' = build_analysis_prompt(PromptArguments(args, transcript, quantitative_data))
    /\ pc' = "generate"
    /\ UNCHANGED <<argv, env, args, quantitative_data, client, response, transcript,
                   report, clock, ts, saved_paths, calls, err>>

\* build_analysis_report: the call to the service raises
GenerateFails ==
    /\ pc = "generate"
    /\ stages' = Append(stages, "generation")
    /\ calls' = [calls EXCEPT !.generate = @ + 1]
    /\ Raise("APIError")
    /\ UNCHANGED <<argv, env, args, quantitative_data, client, response, transcript,
                   prompt, report, clock, ts, saved_paths>>

\* report = build_analysis_report(client, prompt)
GenerateReturns ==
    /\ pc = "generate"
    /\ stages' = Append(stages, "generation")
    /\ calls' = [calls EXCEPT !.generate = @ + 1]
    /\ \E out \in GenOutputs : report' = ReportOf(out)
    /\ pc' = "save_mkdir"
    /\ UNCHANGED <<argv, env, args, quantitative_data, client, response, transcript,
                   prompt, clock, ts, saved_paths, err>>

\* save_outputs: output_dir.mkdir(parents=True, exist_ok=True) succeeds
MkdirOk ==
    /\ pc = "save_mkdir"
    /\ env.dirs[args.output_dir] \in {"absent", "dir"}
    /\ stages' = Append(stages, "writer")
    /\ env' = [env EXCEPT !.dirs[args.output_dir] = "dir"]
    /\ pc' = "save_stamp"
    /\ UNCHANGED <<argv, args, quantitative_data, client, response, transcript,
                   prompt, report, clock, ts, saved_paths, calls, err>>

\* save_outputs: mkdir raises: the path is a file (FileExistsError), or the
\* directory is missing and cannot be created
MkdirFails ==
    /\ pc = "save_mkdir"
    /\ env.dirs[args.output_dir] \in {"absent", "file"}
    /\ stages' = Append(stages, "writer")
    /\ Raise(IF env.dirs[args.output_dir] = "file" THEN "FileExistsError"
             ELSE "PermissionError")
    /\ UNCHANGED <<argv, env, args, quantitative_data, client, response, transcript,
                   prompt, report, clock, ts, saved_paths, calls>>

\* save_outputs: ts = datetime.now().strftime("%Y%m%d_%H%M%S")
Stamp ==
    /\ pc = "save_stamp"
    /\ ts' = Strftime(clock)
    /\ pc' = "save_transcript"
    /\ UNCHANGED <<argv, env, args, quantitative_data, client, response, transcript,
                   prompt, report, clock, saved_paths, calls, err, stages>>

\* save_outputs: transcript_path.write_text(transcript, encoding="utf-8")
WriteTranscriptOk ==
    /\ pc = "save_transcript"
    /\ env' = [env EXCEPT !.files =
                   WriteText(@, TranscriptPath(args.output_dir, ts), transcript)]
    /\ pc' = "save_report"
    /\ UNCHANGED <<argv, args, quantitative_data, client, response, transcript,
                   prompt, report, clock, ts, saved_paths, calls, err, stages>>

\* a failed write of the transcript swallowed, the report written all the same
WriteTranscriptFails_Swallowed ==
    /\ pc = "save_transcript"
    /\ \/ env' = env
       \/ env' = [env EXCEPT !.files =
                      WriteTextTorn(@, TranscriptPath(args.output_dir, ts))]
    /\ pc' = "save_report"
    /\ UNCHANGED <<argv, args, quantitative_data, client, response, transcript,
                   prompt, report, clock, ts, saved_paths, calls, err, stages>>

\* save_outputs: the write of the transcript raises, before or after the
\* file was created
WriteTranscriptFails ==
    /\ pc = "save_transcript"
    /\ \/ env' = env
       \/ env' = [env EXCEPT !.files =
                      WriteTextTorn(@, TranscriptPath(args.output_dir, ts))]
    /\ Raise("OSError")
    /\ UNCHANGED <<argv, args, quantitative_data, client, response, transcript,
                   prompt, report, clock, ts, saved_paths, calls, stages>>

\* save_outputs: report_path.write_text(report, encoding="utf-8"), and
\* return transcript_path, report_path
WriteReportOk ==
    /\ pc = "save_report"
    /\ env' = [env EXCEPT !.files =
                   WriteText(@, ReportPath(args.output_dir, ts), report)]
    /\ saved_paths' = <<TranscriptPath(args.output_dir, ts),
                        ReportPath(args.output_dir, ts)>>
    /\ pc' = "done"
    /\ UNCHANGED <<argv, args, quantitative_data, client, response, transcript,
                   prompt, report, clock, ts, calls, err, stages>>

\* save_outputs: the write of the report raises
WriteReportFails ==
    /\ pc = "save_report"
    /\ \/ env' = env
       \/ env' = [env EXCEPT !.files =
                      WriteTextTorn(@, ReportPath(args.output_dir, ts))]
    /\ Raise("OSError")
    /\ UNCHANGED <<argv, args, quantitative_data, client, response, transcript,
                   prompt, report, clock, ts, saved_paths, calls, stages>>

\* the wall clock advances while the run is under way
Tick ==
    /\ pc \notin {"done", "failed"}
    /\ clock < ClockStart + MaxTicks
    /\ clock' = clock + 1
    /\ UNCHANGED <<pc, argv, env, args, quantitative_data, client, response, transcript,
                   prompt, report, ts, saved_paths, calls, err, stages>>

Next ==
    \/ ParseArgs \/ CheckAudio \/ LoadQuant \/ MakeClient
    \/ TranscribeOpenFails \/ TranscribeCallFails \/ TranscribeReturns
    \/ BuildPrompt \/ GenerateFails \/ GenerateReturns
    \/ MkdirOk \/ MkdirFails \/ Stamp
    \/ WriteTranscriptOk \/ WriteTranscriptFails
    \/ WriteReportOk \/ WriteReportFails
    \/ Tick

Spec == Init /\ [][Next]_vars

-----------------------------------------------------------------------------
(* transcribe_audio's normalisation on its own, over every response *)

\* response holds the answer the service is about to give
InitTranscribe ==
    /\ argv \in {[report_type |-> Absent, output_dir |-> Absent, quant_data |-> FALSE,
                  no_anonymize |-> FALSE, no_confidence_label |-> FALSE]}
    /\ env \in {e \in Environments(argv) :
                   e.audio = "file" /\ e.api_key /\ e.dirs["outputs"] = "dir"}
    /\ pc = "transcribe"
    /\ args = NoArgs
    /\ quantitative_data = None
    /\ client = TRUE
    /\ response \in FlatResponses
    /\ transcript = <<>>
    /\ prompt = <<>>
    /\ report = <<>>
    /\ clock = ClockStart
    /\ ts = <<>>
    /\ saved_paths = <<>>
    /\ calls = [transcribe |-> 0, generate |-> 0]
    /\ err = "none"
    /\ stages = <<"loader">>

\* the service adds one more segment to its answer
ServiceAddsSegment ==
    /\ pc = "transcribe"
    /\ response.has_segments
    /\ Len(response.segments) < MaxSegs
    /\ \E n \in 0..(MaxChars - ResponseChars(response)) :
          \E sg \in SegmentsOfLen(n) :
             response' = [response EXCEPT !.segments = Append(@, sg)]
    /\ UNCHANGED <<pc, argv, env, args, quantitative_data, client, transcript,
                   prompt, report, clock, ts, saved_paths, calls, err, stages>>

\* transcribe_audio returns, whatever the service answered
TranscribeAny == TranscribeReturnsFrom({response})

NextTranscribe == ServiceAddsSegment \/ TranscribeAny

SpecTranscribe == InitTranscribe /\ [][NextTranscribe]_vars

-----------------------------------------------------------------------------
(* build_analysis_prompt on its own, over every argument *)

\* report types a caller may pass, the CLI's two choices or not
ReportTypes == {"meeting", "interview", "workshop", "Meeting"}

PromptNamespaces ==
    {[NoArgs EXCEPT !.report_type = rt, !.no_anonymize = na,
                    !.no_confidence_label = nc, !.pre_briefing_context = ctx] :
        rt \in ReportTypes, na \in BOOLEAN, nc \in BOOLEAN,
        ctx \in {NONE_MARKER, <<"c">>}}

InitPrompt ==
    /\ argv \in {[report_type |-> Absent, output_dir |-> Absent, quant_data |-> FALSE,
                  no_anonymize |-> FALSE, no_confidence_label |-> FALSE]}
    /\ env \in {e \in Environments(argv) :
                   e.audio = "file" /\ e.api_key /\ e.dirs["outputs"] = "dir"}
    /\ pc = "build_prompt"
    /\ args \in PromptNamespaces
    /\ quantitative_data \in QuantDocs
    /\ client = TRUE
    /\ response = NoResponse
    /\ transcript \in {<<>>, <<"a">>, NONE_MARKER}
    /\ prompt = <<>>
    /\ report = <<>>
    /\ clock = ClockStart
    /\ ts = <<>>
    /\ saved_paths = <<>>
    /\ calls = [transcribe |-> 1, generate |-> 0]
    /\ err = "none"
    /\ stages = <<"loader", "transcription">>

NextPrompt == BuildPrompt

SpecPrompt == InitPrompt /\ [][NextPrompt]_vars

-----------------------------------------------------------------------------
(* Reading text back: what the properties below say about a text *)

\* the positions of the line breaks of a text
Breaks(s) == {i \in 1..Len(s) : s[i] = NL}

\* the lines of a text (none for the empty text), split at every line break
SplitLines(s) ==
    IF Len(s) = 0 THEN <<>>
    ELSE LET cuts == Breaks(s)
             from(k) == IF k = 1 THEN 1
                        ELSE 1 + (CHOOSE c \in cuts : Cardinality({d \in cuts : d <= c}) = k - 1)
             upto(k) == IF k = Cardinality(cuts) + 1 THEN Len(s)
                        ELSE (CHOOSE c \in cuts : Cardinality({d \in cuts : d <= c}) = k) - 1
         IN  [k \in 1..(Cardinality(cuts) + 1) |-> SubSeq(s, from(k), upto(k))]

IsPrefix(p, s) == Len(p) <= Len(s) /\ SubSeq(s, 1, Len(p)) = p
IsSuffix(p, s) == Len(p) <= Len(s) /\ SubSeq(s, Len(s) - Len(p) + 1, Len(s)) = p

\* sub occurs in s as a run of consecutive symbols
Contains(s, sub) ==
    \E i \in 1..(Len(s) - Len(sub) + 1) : SubSeq(s, i, i + Len(sub) - 1) = sub

\* t is s without its leading and trailing whitespace
IsTrimOf(t, s) ==
    /\ \E i \in 0..Len(s) :
          /\ i + Len(t) <= Len(s)
          /\ SubSeq(s, i + 1, i + Len(t)) = t
          /\ \A j \in (1..i) \cup ((i + Len(t) + 1)..Len(s)) : s[j] \in Whitespace
    /\ Len(t) > 0 => t[1] \notin Whitespace /\ t[Len(t)] \notin Whitespace

\* the number a run of decimal digits denotes; -1 when it is no such run
RECURSIVE DigitsValue(_)
DigitsValue(d) ==
    IF Len(d) = 0 \/ \E i \in 1..Len(d) : \A k \in 1..10 : DigitChars[k] /= d[i]
    THEN -1
    ELSE LET last == (CHOOSE k \in 1..10 : DigitChars[k] = d[Len(d)]) - 1
         IN  IF Len(d) = 1 THEN last ELSE 10 * DigitsValue(SubSeq(d, 1, Len(d) - 1)) + last

\* the segments of a response that carry text, with the text trimmed
RECURSIVE Spoken(_)
Spoken(segments) ==
    IF Len(segments) = 0 THEN <<>>
    ELSE LET sg == Head(segments)
             words == IF sg.has_text /\ \E i \in 1..Len(sg.text) : sg.text[i] \notin Whitespace
                      THEN CHOOSE t \in {SubSeq(sg.text, i, j) : i, j \in 1..Len(sg.text)} :
                               IsTrimOf(t, sg.text)
                      ELSE <<>>
         IN  (IF words = <<>> THEN <<>>
              ELSE <<[seconds |-> IF sg.has_start THEN sg.start \div 2 ELSE 0,
                      words |-> words]>>)
             \o Spoken(Tail(segments))

\* transcribe_audio has returned for a response with segments
Segmented == pc = "build_prompt" /\ response.has_segments /\ Len(response.segments) > 0

-----------------------------------------------------------------------------
(* Properties of transcribe_audio *)

\* the lines of the spoken segments' texts, in order; first marks the first
\* line of a segment's text
RECURSIVE SpokenLines(_)
SpokenLines(spoken) ==
    IF Len(spoken) = 0 THEN <<>>
    ELSE LET ls == SplitLines(Head(spoken).words)
         IN  [k \in 1..Len(ls) |->
                 [first |-> k = 1, text |-> ls[k], seconds |-> Head(spoken).seconds]]
             \o SpokenLines(Tail(spoken))

\* C1 as stated: for a response with segments the transcript has exactly one
\* line per segment whose trimmed text is non-empty, in the segments' order
\* (line i ends with the trimmed text of the i-th such segment).
C1_OneLinePerSpokenSegment ==
    Segmented =>
        LET lines == SplitLines(transcript)
            spoken == Spoken(response.segments)
        IN  /\ Len(lines) = Len(spoken)
            /\ \A i \in 1..Len(spoken) : IsSuffix(spoken[i].words, lines[i])

\* What transcribe_audio does in place of C1: for a response with segments
\* the transcript consists, in the segments' order, of one entry per segment
\* whose trimmed text is non-empty and of nothing else; an entry is the "["
\* prefix followed by the trimmed text, so it is one line exactly when the
\* trimmed text holds no line break and otherwise continues, unstamped, on
\* one further line per line break of the text.
EntryPerSpokenSegment ==
    Segmented =>
        LET lines == SplitLines(transcript)
            spoken == Spoken(response.segments)
            expect == SpokenLines(spoken)
            unbroken == \A i \in 1..Len(spoken) : Breaks(spoken[i].words) = {}
        IN  /\ Len(lines) = Len(expect)
            /\ \A k \in 1..Len(expect) :
                  IF expect[k].first
                  THEN /\ IsSuffix(expect[k].text, lines[k])
                       /\ Len(lines[k]) > Len(expect[k].text)
                       /\ lines[k][1] = "["
                  ELSE lines[k] = expect[k].text
            /\ unbroken => Len(lines) = Len(spoken)

\* A response holding a segment of blank text beside spoken segments has
\* been transcribed into one line per spoken segment.
EntryPerSpokenSegment_Reached ==
    /\ Segmented
    /\ Len(response.segments) > Len(Spoken(response.segments))
    /\ Len(Spoken(response.segments)) >= 1
    /\ Len(SplitLines(transcript)) = Len(Spoken(response.segments))

\* line is "[", a minutes field of w digits, ":", a seconds field of two
\* digits, "] ", the speaker label, ": " and text, the fields denoting
\* seconds div 60 and seconds mod 60
IsStampedLine(line, w, seconds, text) ==
    /\ w >= 1
    /\ Len(line) = Len(text) + w + 12
    /\ line = <<"[">> \o SubSeq(line, 2, w + 1) \o <<":">> \o SubSeq(line, w + 3, w + 4)
                  \o <<"]", " ">> \o SPEAKER \o <<":", " ">> \o text
    /\ DigitsValue(SubSeq(line, 2, w + 1)) = seconds \div 60
    /\ DigitsValue(SubSeq(line, w + 3, w + 4)) = seconds % 60

\* C2 as stated: the line of every spoken segment is [mm:ss] speaker: text
\* with mm = floor(start) div 60 and ss = floor(start) mod 60, both fields
\* two digits wide, whatever the start time.
C2_TwoDigitFields ==
    Segmented =>
        LET lines == SplitLines(transcript)
            expect == SpokenLines(Spoken(response.segments))
        IN  \A k \in 1..Len(expect) :
               expect[k].first =>
                   /\ k <= Len(lines)
                   /\ IsStampedLine(lines[k], 2, expect[k].seconds, expect[k].text)

\* C2 amended: the line of every spoken segment is [mm:ss] speaker: text with
\* mm = floor(start) div 60 and ss = floor(start) mod 60; ss is two digits
\* wide, zero-padded; mm is zero-padded to two digits when start is below
\* 6000 seconds and is the plain decimal number, three digits or more, from
\* 6000 seconds on.
C2_MinutesAtLeastTwoDigits ==
    Segmented =>
        LET lines == SplitLines(transcript)
            expect == SpokenLines(Spoken(response.segments))
        IN  \A k \in 1..Len(expect) :
               expect[k].first =>
                   /\ k <= Len(lines)
                   /\ LET w == Len(lines[k]) - Len(expect[k].text) - 12
                      IN  /\ IsStampedLine(lines[k], w, expect[k].seconds, expect[k].text)
                          /\ w >= 2
                          /\ w = 2 <=> expect[k].seconds < 6000
                          /\ w > 2 => lines[k][2] /= "0"

\* C2 witness: a segment starting at 65.5 s and a segment starting at 6005.5 s,
\* both spoken, have been transcribed.
C2_Witness ==
    /\ Segmented
    /\ \E i, j \in 1..Len(response.segments) :
          /\ response.segments[i].start = 131
          /\ response.segments[j].start = 12011
          /\ SegmentText(response.segments[i]) /= <<>>
          /\ SegmentText(response.segments[j]) /= <<>>
    /\ Contains(transcript, <<"[", "0", "1", ":", "0", "5", "]">>)
    /\ Contains(transcript, <<"[", "1", "0", "0", ":", "0", "5", "]">>)

\* transcribe_audio has returned for a response without segments
Unsegmented == pc = "build_prompt" /\ (~response.has_segments \/ Len(response.segments) = 0)

\* C3: for a response whose segment list is empty or absent the transcript is
\* the response's text with leading and trailing whitespace removed, the
\* empty text when the response has no text, and holds no [mm:ss] stamp.
C3_FlatTextTrimmed ==
    Unsegmented =>
        /\ IsTrimOf(transcript, IF response.has_text THEN response.text ELSE <<>>)
        /\ ~response.has_text => transcript = <<>>
        /\ \A i \in 1..Len(transcript) : transcript[i] \notin {"[", "]"}

\* C3 witness: a response without segments whose text has whitespace on both
\* sides of its words has been transcribed.
C3_Witness ==
    /\ Unsegmented
    /\ response.has_text
    /\ Len(response.text) >= 3
    /\ response.text[1] \in Whitespace
    /\ response.text[Len(response.text)] \in Whitespace
    /\ Len(transcript) > 0

-----------------------------------------------------------------------------
(* Properties of build_analysis_prompt *)

\* the place of a token of the template in a prompt
IndexOf(s, token) == CHOOSE i \in 1..Len(s) : s[i] = token

\* what a prompt holds between the line of token a and the blank line or
\* line that precedes token b; gap is the number of line breaks before b
Between(s, a, b, gap) == SubSeq(s, IndexOf(s, a) + 2, IndexOf(s, b) - gap - 1)

\* the rest of the line that starts with token
RestOfLine(s, token) ==
    LET i == IndexOf(s, token)
        j == Min({k \in (i + 1)..Len(s) : s[k] = NL})
    IN  SubSeq(s, i + 1, j - 1)

\* the text the prompt shows under Quantitative_Data
QuantSlot(p) == Between(p, "- Quantitative_Data:", "### 2. INPUT TRANSCRIPT", 2)

\* the text the prompt shows between <<< and >>>
TranscriptSlot(p) == Between(p, "<<<", ">>>", 1)

\* build_analysis_prompt has returned
Prompted == pc \in {"generate", "save_mkdir", "save_stamp", "save_transcript", "save_report", "done"}

\* C4 as stated: the prompt shows the marker under Quantitative_Data exactly
\* when the quantitative data is None, and shows every document that is
\* present, whatever its value, serialised with an indent of 2 and non-ASCII
\* characters kept.
C4_MarkerOnlyWhenAbsent ==
    Prompted =>
        /\ QuantSlot(prompt) = NONE_MARKER <=> quantitative_data = None
        /\ quantitative_data /= None => QuantSlot(prompt) = Dumps(quantitative_data, FALSE, 2)

\* C5: the prompt embeds the meeting template and not the interview template
\* when report_type is "meeting", the interview template and not the meeting
\* template for every other report_type, and building it raises nothing.
C5_ExactlyOneTemplate ==
    Prompted =>
        /\ err = "none"
        /\ Contains(prompt, meeting_template) <=> args.report_type = "meeting"
        /\ Contains(prompt, interview_template) <=> args.report_type /= "meeting"
        /\ Between(prompt, "### 4. FINAL OUTPUT TEMPLATES", "### writing guidelines", 2)
               \in {meeting_template, interview_template}

\* C5 witness: a prompt has been built for a report type that is neither
\* "meeting" nor "interview", and it embeds the interview template.
C5_Witness ==
    /\ Prompted
    /\ args.report_type \notin {"meeting", "interview"}
    /\ Contains(prompt, interview_template)

\* C9: the prompt renders Privacy_Anonymize as false exactly when
\* --no-anonymize was passed and Confidence_Labeling as false exactly when
\* --no-confidence-label was passed, and as true otherwise.
C9_FlagsRendered ==
    Prompted =>
        /\ RestOfLine(prompt, "- Privacy_Anonymize: ") =
               (IF argv.no_anonymize THEN <<"f", "a", "l", "s", "e">> ELSE <<"t", "r", "u", "e">>)
        /\ RestOfLine(prompt, "- Confidence_Labeling: ") =
               (IF argv.no_confidence_label THEN <<"f", "a", "l", "s", "e">>
                ELSE <<"t", "r", "u", "e">>)

\* C9 witness: a run given --no-anonymize alone has built its prompt, which
\* renders Privacy_Anonymize false and Confidence_Labeling true.
C9_Witness ==
    /\ Prompted
    /\ argv.no_anonymize /\ ~argv.no_confidence_label
    /\ Contains(prompt, <<"- Privacy_Anonymize: ", "f", "a", "l", "s", "e", NL,
                          "- Confidence_Labeling: ", "t", "r", "u", "e", NL>>)

-----------------------------------------------------------------------------
(* Properties of main and save_outputs *)

\* the files of the run that were written in full
Written(path) == \E f \in env.files : f.path = path /\ f.complete

TranscriptWritten == \E f \in env.files : f.complete /\ Head(f.path.name) = "transcript_"
ReportWritten == \E f \in env.files : f.complete /\ Head(f.path.name) = "analysis_report_"

\* the directory the command line configures
ConfiguredDir == IF argv.output_dir = Absent THEN "outputs" ELSE argv.output_dir

\* C6: in a run whose audio path does not exist no service is ever called,
\* no client is created, no directory and no file is written, and the run,
\* its command line parsed, fails with FileNotFoundError at the check of the
\* path, before the quantitative data is loaded.
C6_MissingAudioStopsFirst ==
    env.audio = "missing" =>
        /\ calls = [transcribe |-> 0, generate |-> 0]
        /\ ~client
        /\ env.files = {}
        /\ \A d \in DirNames : env.dirs[d] = "dir" => d = ConfiguredDir
        /\ pc \in {"start", "check_audio", "failed"}
        /\ stages \in {<<>>, <<"loader">>}
        /\ pc = "failed" /\ parse_args(argv).err = "none" => err = "FileNotFoundError"

\* C6 witness: a run whose audio path does not exist, and whose
\* quantitative-data file is malformed, has failed with FileNotFoundError.
C6_Witness ==
    /\ env.audio = "missing"
    /\ pc = "failed"
    /\ err = "FileNotFoundError"
    /\ argv.quant_data /\ env.quant.st = "malformed"

\* C7 as stated: no failed run leaves the transcript file written and the
\* report file not written.
C7_NoPartialOutput ==
    pc = "failed" => ~(TranscriptWritten /\ ~ReportWritten)

\* C7 amended: a run that fails before save_outputs writes (audio check,
\* quantitative-data load, client, transcription, report generation,
\* creation of the output directory) leaves no file; a run that fails in one
\* of the two writes of save_outputs may leave partial output, the transcript
\* file written and the report file missing or torn, but never a report
\* file written in full, and never any report file without the transcript
\* file written in full.
C7_PartialOutputOnlyFromWrites ==
    /\ pc = "failed" /\ err /= "OSError" => env.files = {}
    /\ pc = "failed" => ~ReportWritten
    /\ (\E f \in env.files : Head(f.path.name) = "analysis_report_") => TranscriptWritten
    /\ pc = "failed" /\ err = "OSError" => stages[Len(stages)] = "writer"

\* C7 witness: a run has failed in the write of the report, the transcript
\* file written and no report file.
C7_Witness ==
    /\ pc = "failed"
    /\ err = "OSError"
    /\ TranscriptWritten
    /\ \A f \in env.files : Head(f.path.name) /= "analysis_report_"

\* the stamp of a file name: what stands between its first and last symbol
StampOf(name) == SubSeq(name, 2, Len(name) - 1)

\* C8: when save_outputs has returned, it has returned two paths, named
\* transcript_<ts>.txt and analysis_report_<ts>.md with one and the same ts
\* (YYYYMMDD_HHMMSS, read from the clock once), both in the configured
\* output directory, which exists; and the creation of the directory raises
\* nothing when the directory exists already.
C8_TwoPathsOneStamp ==
    /\ pc = "done" =>
          /\ Len(saved_paths) = 2
          /\ \A i \in 1..2 :
                /\ saved_paths[i].dir = ConfiguredDir
                /\ Len(saved_paths[i].name) = 17
                /\ StampOf(saved_paths[i].name)[9] = "_"
                /\ DigitsValue(SubSeq(StampOf(saved_paths[i].name), 1, 8)) >= 0
                /\ DigitsValue(SubSeq(StampOf(saved_paths[i].name), 10, 15)) >= 0
                /\ Written(saved_paths[i])
          /\ Head(saved_paths[1].name) = "transcript_"
          /\ saved_paths[1].name[17] = ".txt"
          /\ Head(saved_paths[2].name) = "analysis_report_"
          /\ saved_paths[2].name[17] = ".md"
          /\ StampOf(saved_paths[1].name) = StampOf(saved_paths[2].name)
          /\ env.dirs[ConfiguredDir] = "dir"
    /\ pc = "failed" /\ err \in {"FileExistsError", "PermissionError"} =>
          env.dirs[ConfiguredDir] /= "dir"

\* C8 witness: save_outputs has returned in a run given --output-dir, the
\* clock having advanced during the run.
C8_Witness ==
    /\ pc = "done"
    /\ argv.output_dir /= Absent
    /\ clock > ClockStart
    /\ Len(saved_paths) = 2
    /\ ts /= Strftime(clock)

Pipeline == <<"loader", "transcription", "prompt", "generation", "writer">>

\* C10: the stages run in the order loader, transcription, prompt building,
\* report generation, output writing, none twice; each service is called at
\* most once; the generation service is called only after transcribe_audio
\* has returned; files are written only after both calls have returned; and
\* the transcript written to its file is the text the prompt embeds.
C10_StraightLine ==
    /\ IsPrefix(stages, Pipeline)
    /\ calls.transcribe <= 1 /\ calls.generate <= 1
    /\ calls.generate > 0 => calls.transcribe = 1 /\ Len(stages) >= 4 /\ Len(prompt) > 0
    /\ env.files /= {} => /\ calls = [transcribe |-> 1, generate |-> 1]
                          /\ stages = Pipeline
                          /\ pc \in {"save_report", "done", "failed"}
    /\ \A f \in env.files :
          f.complete /\ Head(f.path.name) = "transcript_" =>
              f.content = TranscriptSlot(prompt) /\ f.content = transcript
    /\ pc = "failed" => err /= "none"

\* C10 witness: a run has ended with both files written, each service called
\* once, for a transcript that is not empty.
C10_Witness ==
    /\ pc = "done"
    /\ calls = [transcribe |-> 1, generate |-> 1]
    /\ Len(transcript) > 0
    /\ TranscriptWritten /\ ReportWritten

====
